---- MODULE Spec2Model ----
(***************************************************************************)
(* Model of mutagen-core's mutator for the binary operators == and !=     *)
(* (src/mutagen-core/src/mutator/mutator_binop_eq.rs).                     *)
(*                                                                         *)
(* Build time: every thread of the transform pass hands expression nodes   *)
(* to MutatorBinopEq::transform, which registers the possible mutations of *)
(* a matched node and rewrites it into a call of MutatorBinopEq::run.      *)
(* Run time: the harness fixes the runtime configuration, and the threads  *)
(* of the test process execute the rewritten call sites.                   *)
(*                                                                         *)
(* SharedTransformInfo::add_mutations and MutagenRuntimeConfig are code of *)
(* other files of the crate; they are modelled from the specification's    *)
(* sections 4.2 and 4.4.                                                   *)
(***************************************************************************)
EXTENDS Integers, Sequences, FiniteSets, TLC

\* ------------------------------------------------------------ bounds ----
\* Number of expression nodes the transform pass visits.
MaxNodes == 2

\* Threads of the transform pass and of the test process.
Threads == {1, 2}

\* ------------------------------------------------------ program data ----
\* Operand values: the two integers of the module's tests (run(1, 5, 4, ..)).
TestLeft == 5
TestRight == 4
Values == {TestRight, TestLeft}

\* The operand pairs of the calls: the pair of the tests, and a pair of
\* equal values.
Operands == {v \in Values \X Values : v[2] = TestRight}

\* First identifier the registry hands out (spec 8, scenario 5: base=1).
FirstId == 1

\* enum BinopEq { Eq, Ne }
BinopEq == {"Eq", "Ne"}

\* The family's variants in the order possible_mutations enumerates them.
variants == <<"Eq", "Ne">>

\* syn::BinOp tokens the pass can meet: the two of the family and another.
BinOps == {"Eq", "Ne", "Lt"}

\* Operand sub-expressions and attributes of the nodes the frontend supplies.
LeftExpr == "a"
RightExpr == "b"
NodeAttrs == <<"#[attr]">>
FnName == "f"

\* Spans. 0 is the call-site span that quote! gives; the operator token of
\* the node at position n has span n, and the node's operands have spans of
\* their own.
LeftSpan(span) == <<span, "left">>
RightSpan(span) == <<span, "right">>

\* The paths the emitted code names (lines 73, 78 and 142), by their
\* segments; each has a leading "::".
RunPath == <<"mutagen", "mutator", "MutatorBinopEq", "run">>
BinopEqPath == <<"mutagen", "mutator", "mutator_binop_eq", "BinopEq">>
GetDefaultPath == <<"mutagen", "MutagenRuntimeConfig", "get_default">>

\* syn::Expr values, by variant: a literal, a path (whether it has a
\* leading "::", and its segments, each an identifier with its span), a
\* reference, a parenthesised expression, a tuple, a binary expression on
\* &, a call, and a verbatim expression, whose tokens syn does not
\* interpret.
Seg(ident, span) == [ident |-> ident, span |-> span]
PathAt(names, span) == [i \in 1..Len(names) |-> Seg(names[i], span)]
ExprLit(n) == [kind |-> "Lit", n |-> n]
ExprPath(leading, segments) ==
    [kind |-> "Path", leading |-> leading, segments |-> segments]
ExprReference(x) == [kind |-> "Reference", expr |-> x]
ExprParen(x) == [kind |-> "Paren", expr |-> x]
ExprTuple(elems) == [kind |-> "Tuple", elems |-> elems]
ExprBitAnd(l, r) ==
    [kind |-> "Binary", op |-> "BitAnd", left |-> l, right |-> r]
ExprCall(func, args, span) ==
    [kind |-> "Call", func |-> func, args |-> args, span |-> span]
Verbatim(text, span) == [kind |-> "Verbatim", text |-> text, span |-> span]

\* The operand expressions transform moves out of a binary node: a path of
\* one segment, with the span it has in the input; or a verbatim
\* expression, here the single token ",".
Operand(text, span) == ExprPath(FALSE, << Seg(text, span) >>)

\* syn::Expr nodes handed to transform: binary expressions, and one kind
\* that is not a binary expression. span is the operator token's position.
BinaryNode(op, span) ==
    [kind |-> "Binary", op |-> op,
     left |-> Operand(LeftExpr, LeftSpan(span)),
     right |-> Operand(RightExpr, RightSpan(span)),
     attrs |-> NodeAttrs, span |-> span]

\* A == node whose left operand is a verbatim expression.
VerbatimNode(span) ==
    [kind |-> "Binary", op |-> "Eq",
     left |-> Verbatim(",", LeftSpan(span)),
     right |-> Operand(RightExpr, RightSpan(span)),
     attrs |-> NodeAttrs, span |-> span]

LitNode(span) ==
    [kind |-> "Lit", op |-> "-", left |-> "-", right |-> "-",
     attrs |-> NodeAttrs, span |-> span]

Nodes(span) ==
    {BinaryNode(op, span) : op \in BinOps}
    \cup {VerbatimNode(span), LitNode(span)}

NoExpr == [kind |-> "None"]

\* ------------------------------------------------ BinopEq (lines 124-165)
\* Variant of BinopEq::eq whose Ne arm repeats the Eq arm.
eq_both_arms_equal(self, left, right) == left = right

\* BinopEq::eq: left == right for Eq, left != right for Ne.
eq(self, left, right) ==
    IF self = "Eq" THEN left = right ELSE left # right

\* impl fmt::Display for BinopEq
fmt(self) ==
    IF self = "Eq" THEN "==" ELSE "!="

\* impl fmt::Display for BinopEqSpanned: writes the wrapped operator.
fmt_spanned(self) == fmt(self.op)

\* ----------------------------------------- MutationBinopEq (lines 88-116)
\* Variant of possible_mutations that drops the filter on the original.
possible_mutations_unfiltered(original_op) ==
    [i \in 1..Len(variants) |-> [op |-> variants[i]]]

\* possible_mutations: the variants, in order, without the original.
possible_mutations(original_op) ==
    LET keep(op) == op # original_op
        wrap(s) == [i \in 1..Len(s) |-> [op |-> s[i]]]
    IN wrap(SelectSeq(variants, keep))

\* MutationBinopEq::mutate
mutate(self, left, right) == eq(self.op, left, right)

\* Variant of to_mutation that passes the two operator texts in the other
\* order.
to_mutation_texts_swapped(self, original_op, context) ==
    [fn_name |-> context.fn_name,
     mutator |-> "binop_eq",
     original_code |-> fmt(self.op),
     mutated_code |-> fmt_spanned(original_op),
     span |-> original_op.span]

\* MutationBinopEq::to_mutation: the Mutation record for the registry.
to_mutation(self, original_op, context) ==
    [fn_name |-> context.fn_name,
     mutator |-> "binop_eq",
     original_code |-> fmt_spanned(original_op),
     mutated_code |-> fmt(self.op),
     span |-> original_op.span]

\* ------------------------------------- Mutation Registry (spec 4.2) ----
\* SharedTransformInfo: the identifier counter and the identifier -> Mutation
\* map. The empty function is the map before any registration.
NewTransformInfo == [next_id |-> FirstId, mutations |-> <<>>]

\* Variant of add_mutations that returns the counter after the addition.
add_mutations_add_and_fetch(info, entries) ==
    LET base == info.next_id
        n == Len(entries)
        block == base..(base + n - 1)
    IN [id |-> base + n,
        info |-> [next_id |-> base + n,
                  mutations |-> [i \in (DOMAIN info.mutations) \cup block |->
                                   IF i \in block THEN entries[i - base + 1]
                                   ELSE info.mutations[i]]]]

\* Variant of add_mutations that stores the entries and leaves the counter.
add_mutations_no_advance(info, entries) ==
    LET base == info.next_id
        n == Len(entries)
        block == base..(base + n - 1)
    IN [id |-> base,
        info |-> [next_id |-> base,
                  mutations |-> [i \in (DOMAIN info.mutations) \cup block |->
                                   IF i \in block THEN entries[i - base + 1]
                                   ELSE info.mutations[i]]]]

\* add_mutations: one atomic fetch-and-add of the counter by the number of
\* entries; entry k is stored under identifier base + k - 1; the base is
\* returned. The result pairs the returned identifier with the new registry.
add_mutations(info, entries) ==
    LET base == info.next_id
        n == Len(entries)
        block == base..(base + n - 1)
    IN [id |-> base,
        info |-> [next_id |-> base + n,
                  mutations |-> [i \in (DOMAIN info.mutations) \cup block |->
                                   IF i \in block THEN entries[i - base + 1]
                                   ELSE info.mutations[i]]]]

\* ------------------------------------- Runtime Oracle state (spec 4.4) ----
\* MutagenRuntimeConfig: no mutation active, or mutation N active.
without_mutation == [active |-> FALSE, mutation_id |-> 0]
with_mutation_id(n) == [active |-> TRUE, mutation_id |-> n]

\* Configurations the harness can set: none, every identifier a pass of
\* MaxNodes nodes can allocate, and one beyond them all.
RuntimeConfigs ==
    {without_mutation}
    \cup {with_mutation_id(n) : n \in FirstId..(FirstId + MaxNodes)}

\* covered: marks the identifier in the Coverage Map (an atomic flag per
\* identifier).
covered(map, mutator_id) == map \cup {mutator_id}

\* get_mutation: the candidate at offset active - base when the active
\* identifier lies in [base, base + len), otherwise nothing. An Option is a
\* sequence of length at most one.
get_mutation(rt, mutator_id, mutations) ==
    IF rt.active
       /\ rt.mutation_id >= mutator_id
       /\ rt.mutation_id < mutator_id + Len(mutations)
    THEN <<mutations[rt.mutation_id - mutator_id + 1]>>
    ELSE <<>>

\* --------------------------------------- MutatorBinopEq (lines 17-86) ----
\* Variant of run that takes the mutation without consulting the runtime.
run_ignores_runtime(mutator_id, left, right, original_op, rt) ==
    mutate(possible_mutations(original_op)[1], left, right)

\* Variant of run that never takes the mutation.
run_never_mutates(mutator_id, left, right, original_op, rt) ==
    eq(original_op, left, right)

\* Variant of run that takes the mutation whenever any mutation is active.
run_any_active(mutator_id, left, right, original_op, rt) ==
    IF rt.active THEN mutate(possible_mutations(original_op)[1], left, right)
    ELSE eq(original_op, left, right)

\* Variant of run whose block test admits the identifier one past the block.
run_off_by_one(mutator_id, left, right, original_op, rt) ==
    LET mutations == possible_mutations(original_op)
        off == rt.mutation_id - mutator_id
    IN IF rt.active /\ off >= 0 /\ off <= Len(mutations)
       THEN mutate(mutations[IF off = Len(mutations) THEN off ELSE off + 1],
                   left, right)
       ELSE eq(original_op, left, right)

\* Variant of run whose block test has no upper end: every site at or
\* below the active identifier takes its first mutation.
run_no_upper_bound(mutator_id, left, right, original_op, rt) ==
    IF rt.active /\ rt.mutation_id >= mutator_id
    THEN mutate(possible_mutations(original_op)[1], left, right)
    ELSE eq(original_op, left, right)

\* run, lines 28-33: the value returned once the site is marked covered.
run(mutator_id, left, right, original_op, rt) ==
    LET mutations == possible_mutations(original_op)
        m == get_mutation(rt, mutator_id, mutations)
    IN IF m # <<>> THEN mutate(m[1], left, right)
       ELSE eq(original_op, left, right)

\* transform, lines 41-65 and 83: the family operator of a matching node.
IsMatch(e) == e.kind = "Binary" /\ e.op \in BinopEq

BinopEqSpanned(e) == [op |-> e.op, span |-> e.span]

\* Variant of the unmatched arms that rebuilds a binary node without its
\* attributes.
transform_unmatched_drops_attrs(e) ==
    IF e.kind = "Binary"
    THEN [kind |-> "Binary", op |-> e.op, left |-> e.left, right |-> e.right,
          attrs |-> <<>>, span |-> e.span]
    ELSE e

\* transform, lines 57-64 and 83: what the arms for a node outside the
\* family return. A binary node is put together again from the parts the
\* pattern took out of it; any other node is handed back.
transform_unmatched(e) ==
    IF e.kind = "Binary"
    THEN [kind |-> "Binary", op |-> e.op, left |-> e.left, right |-> e.right,
          attrs |-> e.attrs, span |-> e.span]
    ELSE e

\* Variant of lines 66-70 that builds a record for every variant.
MutationRecordsAllVariants(op, context) ==
    [i \in 1..Len(variants) |-> to_mutation([op |-> variants[i]], op, context)]

\* transform, lines 66-70: the records handed to add_mutations, one per
\* possible mutation, in order.
MutationRecords(op, context) ==
    LET ms == possible_mutations(op.op)
    IN [i \in 1..Len(ms) |-> to_mutation(ms[i], op, context)]

\* Variant of the rewrite that passes the right operand before the left.
DispatchExprSwapped(mutator_id, left, right, op) ==
    ExprCall(ExprPath(TRUE, PathAt(RunPath, op.span)),
             << ExprLit(mutator_id),
                ExprReference(ExprParen(right)),
                ExprReference(ExprParen(left)),
                ExprPath(TRUE, PathAt(BinopEqPath, 0) \o << Seg(op.op, op.span) >>),
                ExprCall(ExprPath(TRUE, PathAt(GetDefaultPath, op.span)),
                         <<>>, op.span) >>,
             op.span)

\* transform, lines 72-81: the call the node is rewritten into. The
\* arguments are listed in the order the call evaluates them.
DispatchExpr(mutator_id, left, right, op) ==
    ExprCall(ExprPath(TRUE, PathAt(RunPath, op.span)),
             << ExprLit(mutator_id),
                ExprReference(ExprParen(left)),
                ExprReference(ExprParen(right)),
                ExprPath(TRUE, PathAt(BinopEqPath, 0) \o << Seg(op.op, op.span) >>),
                ExprCall(ExprPath(TRUE, PathAt(GetDefaultPath, op.span)),
                         <<>>, op.span) >>,
             op.span)

\* The last segment of a path.
LastIdent(path) == path.segments[Len(path.segments)].ident

\* Token streams. A token is an identifier, a literal or a punctuation mark
\* ("::", "&", "(", ")", ","); it has a kind, a text, a number (for a
\* literal) and a span.
Tok(k, s, n, span) == [k |-> k, s |-> s, n |-> n, span |-> span]

\* The tokens of a path: its segments, each at its span, with "::" between
\* them and before the first when the path has a leading "::".
PathTokens(x) ==
    LET n == Len(x.segments)
        off == IF x.leading THEN 0 ELSE 1
    IN [j \in 1..(2 * n - off) |->
          LET seg == x.segments[(j + off + 1) \div 2]
          IN IF (j + off) % 2 = 1
             THEN Tok("punct", "::", 0, seg.span)
             ELSE Tok("ident", seg.ident, 0, seg.span)]

\* impl ToTokens for BinopEqSpanned (lines 139-148): the enum's path and
\* "::" from quote!, then the variant's name at the operator's span.
to_tokens(self) ==
    PathTokens(ExprPath(TRUE, PathAt(BinopEqPath, 0)))
    \o << Tok("punct", "::", 0, 0), Tok("ident", self.op, 0, self.span) >>

\* #left and #right of lines 75-76: an interpolated operand appends its own
\* tokens, with the spans they have in the input. A verbatim expression
\* appends the tokens it holds.
ExprTokens(x) ==
    IF x.kind = "Verbatim" THEN << Tok("punct", x.text, 0, x.span) >>
    ELSE PathTokens(x)

\* The tokens of one argument of the call (lines 74-78). The tokens written
\* in the macro get the operator's span; the interpolated ones keep theirs:
\* the identifier is a literal at the call-site span.
ArgTokens(a, span) ==
    IF a.kind = "Lit" THEN << Tok("lit", "", a.n, 0) >>
    ELSE IF a.kind = "Reference"
    THEN << Tok("punct", "&", 0, span), Tok("punct", "(", 0, span) >>
         \o ExprTokens(a.expr.expr)
         \o << Tok("punct", ")", 0, span) >>
    ELSE IF a.kind = "Path"
    THEN to_tokens([op |-> LastIdent(a), span |-> span])
    ELSE PathTokens(a.func)
         \o << Tok("punct", "(", 0, span), Tok("punct", ")", 0, span) >>

RECURSIVE ArgListTokens(_, _, _)
ArgListTokens(args, k, span) ==
    IF k > Len(args) THEN <<>>
    ELSE (IF k = 1 THEN <<>> ELSE << Tok("punct", ",", 0, span) >>)
         \o ArgTokens(args[k], span) \o ArgListTokens(args, k + 1, span)

\* quote_spanned! of lines 72-80: the tokens of the call. Those written in
\* the macro are at the operator's span, the interpolated ones where
\* ArgTokens puts them.
QuoteSpanned(call) ==
    PathTokens(call.func)
    \o << Tok("punct", "(", 0, call.span) >>
    \o ArgListTokens(call.args, 1, call.span)
    \o << Tok("punct", ")", 0, call.span) >>

\* syn::parse2 of line 72, as a parser of the expressions these tokens can
\* spell. A parse gives the expression and the position after it, or fails.
IsTok(ts, p, k, s) == p <= Len(ts) /\ ts[p].k = k /\ ts[p].s = s
IsIdent(ts, p) == p <= Len(ts) /\ ts[p].k = "ident"

ParseOk(x, next) == [ok |-> TRUE, expr |-> x, next |-> next]
ParseErr(p) == [ok |-> FALSE, expr |-> NoExpr, next |-> p]

RECURSIVE ParseExpr(_, _)
RECURSIVE ParseBinary(_, _)
RECURSIVE ParseUnary(_, _)
RECURSIVE ParseCalls(_, _, _)
RECURSIVE ParsePrimary(_, _)
RECURSIVE ParseArgs(_, _, _)
RECURSIVE ParseSegments(_, _, _)

\* A comma-separated list of expressions up to the closing parenthesis,
\* from token p on, with the expressions parsed so far in acc. A comma may
\* stand before the closing parenthesis. The result holds the list, whether
\* it ended in a comma, and the position after the parenthesis.
ParseArgs(ts, p, acc) ==
    IF IsTok(ts, p, "punct", ")")
    THEN [ok |-> TRUE, args |-> acc, trailing |-> FALSE, next |-> p + 1]
    ELSE LET r == ParseExpr(ts, p)
         IN IF ~r.ok
            THEN [ok |-> FALSE, args |-> acc, trailing |-> FALSE,
                  next |-> r.next]
            ELSE IF IsTok(ts, r.next, "punct", ",")
            THEN IF IsTok(ts, r.next + 1, "punct", ")")
                 THEN [ok |-> TRUE, args |-> Append(acc, r.expr),
                       trailing |-> TRUE, next |-> r.next + 2]
                 ELSE ParseArgs(ts, r.next + 1, Append(acc, r.expr))
            ELSE IF IsTok(ts, r.next, "punct", ")")
            THEN [ok |-> TRUE, args |-> Append(acc, r.expr),
                  trailing |-> FALSE, next |-> r.next + 1]
            ELSE [ok |-> FALSE, args |-> Append(acc, r.expr),
                  trailing |-> FALSE, next |-> r.next]

\* The rest of a path whose segments so far are in acc: the path goes on
\* while a "::" follows that does not stand before a parenthesis, and each
\* such "::" needs a segment after it.
ParseSegments(ts, p, acc) ==
    IF IsTok(ts, p, "punct", "::") /\ ~IsTok(ts, p + 1, "punct", "(")
    THEN IF IsIdent(ts, p + 1)
         THEN ParseSegments(ts, p + 2,
                            Append(acc, Seg(ts[p + 1].s, ts[p + 1].span)))
         ELSE [ok |-> FALSE, segments |-> acc, next |-> p + 1]
    ELSE [ok |-> TRUE, segments |-> acc, next |-> p]

\* A path: an optional leading "::", a segment, and the rest.
ParsePath(ts, p) ==
    LET leading == IsTok(ts, p, "punct", "::")
        q == IF leading THEN p + 1 ELSE p
    IN IF ~IsIdent(ts, q) THEN ParseErr(q)
       ELSE LET r == ParseSegments(ts, q + 1, << Seg(ts[q].s, ts[q].span) >>)
            IN IF r.ok THEN ParseOk(ExprPath(leading, r.segments), r.next)
               ELSE ParseErr(r.next)

\* A literal, a path, or a parenthesis: one expression in parentheses, or a
\* tuple.
ParsePrimary(ts, p) ==
    IF p > Len(ts) THEN ParseErr(p)
    ELSE IF ts[p].k = "lit" THEN ParseOk(ExprLit(ts[p].n), p + 1)
    ELSE IF ts[p].k = "ident" \/ IsTok(ts, p, "punct", "::")
    THEN ParsePath(ts, p)
    ELSE IF IsTok(ts, p, "punct", "(")
    THEN LET a == ParseArgs(ts, p + 1, <<>>)
         IN IF ~a.ok THEN ParseErr(a.next)
            ELSE IF Len(a.args) = 1 /\ ~a.trailing
            THEN ParseOk(ExprParen(a.args[1]), a.next)
            ELSE ParseOk(ExprTuple(a.args), a.next)
    ELSE ParseErr(p)

\* r is a parsed expression that began at token p0: every argument list
\* after it makes a call of what came before.
ParseCalls(ts, p0, r) ==
    IF ~r.ok \/ ~IsTok(ts, r.next, "punct", "(") THEN r
    ELSE LET a == ParseArgs(ts, r.next + 1, <<>>)
         IN IF ~a.ok THEN ParseErr(a.next)
            ELSE ParseCalls(ts, p0,
                            ParseOk(ExprCall(r.expr, a.args, ts[p0].span),
                                    a.next))

\* A reference, or a primary expression with its calls.
ParseUnary(ts, p) ==
    IF IsTok(ts, p, "punct", "&")
    THEN LET r == ParseUnary(ts, p + 1)
         IN IF r.ok THEN ParseOk(ExprReference(r.expr), r.next) ELSE r
    ELSE ParseCalls(ts, p, ParsePrimary(ts, p))

\* r is a parsed expression: every & after it makes a binary expression of
\* what came before and the operand that follows.
ParseBinary(ts, r) ==
    IF ~r.ok \/ ~IsTok(ts, r.next, "punct", "&") THEN r
    ELSE LET u == ParseUnary(ts, r.next + 1)
         IN IF ~u.ok THEN u
            ELSE ParseBinary(ts, ParseOk(ExprBitAnd(r.expr, u.expr), u.next))

ParseExpr(ts, p) == ParseBinary(ts, ParseUnary(ts, p))

\* syn::parse2 of line 72: the expression the whole stream spells, or an
\* error when it spells none.
parse2(ts) ==
    LET r == ParseExpr(ts, 1)
    IN IF r.ok /\ r.next = Len(ts) + 1
       THEN [ok |-> TRUE, expr |-> r.expr]
       ELSE [ok |-> FALSE, expr |-> NoExpr]

\* The operand expressions of a call, in evaluation order.
RefArgs(call) ==
    LET isRef(a) == a.kind = "Reference" IN SelectSeq(call.args, isRef)

\* ----------------------------------------------------------- state ------
VARIABLES
    phase,          \* "build": transform pass; "run": test execution
    visited,        \* number of nodes handed to transform so far
    transform_info, \* the registry: identifier counter and Mutation map
    registered,     \* node positions in the order of their add_mutations
    program,        \* node position -> the expression transform returned
    runtime,        \* MutagenRuntimeConfig of the run
    coverage,       \* Coverage Map: identifiers marked covered
    invoked,        \* identifiers of the sites called so far in the run
    pc,             \* per thread: position in transform or in a call site
    e,              \* per thread: transform's argument node
    mutator_id,     \* per thread: transform's local mutator_id
    frame,          \* per thread: the call site and run's parameters
    evals,          \* per thread: operand evaluations of the current call
    result          \* per thread: value the last completed call returned

vars == <<phase, visited, transform_info, registered, program, runtime, coverage,
          invoked, pc, e, mutator_id, frame, evals, result>>

NoFrame ==
    [site |-> 0, mutator_id |-> 0, left |-> 0, right |-> 0, original_op |-> "-"]

Context == [fn_name |-> FnName]

Init ==
    /\ phase = "build"
    /\ visited = 0
    /\ transform_info = NewTransformInfo
    /\ registered = <<>>
    /\ program = <<>>
    /\ runtime = without_mutation
    /\ coverage = {}
    /\ invoked = {}
    /\ pc = [t \in Threads |-> "idle"]
    /\ e = [t \in Threads |-> NoExpr]
    /\ mutator_id = [t \in Threads |-> 0]
    /\ frame = [t \in Threads |-> NoFrame]
    /\ evals = [t \in Threads |-> <<>>]
    /\ result = [t \in Threads |-> FALSE]

runVars == <<runtime, coverage, invoked, frame, evals, result>>

\* ------------------------------------------------------ transform -------
\* transform on a node that is no == or != expression (lines 57-64, 83):
\* the node is returned as it came.
TransformIdentity(t) ==
    /\ phase = "build" /\ pc[t] = "idle" /\ visited < MaxNodes
    /\ \E node \in Nodes(visited + 1) :
          /\ ~IsMatch(node)
          /\ program' = program @@ (node.span :> transform_unmatched(node))
    /\ visited' = visited + 1
    /\ UNCHANGED <<phase, transform_info, registered, pc, e, mutator_id>>
    /\ UNCHANGED runVars

\* transform on a == or != node, lines 36-65: the thread is handed the
\* next node and matches its operator; it stands before add_mutations.
TransformMatch(t) ==
    /\ phase = "build" /\ pc[t] = "idle" /\ visited < MaxNodes
    /\ \E node \in Nodes(visited + 1) :
          /\ IsMatch(node)
          /\ e' = [e EXCEPT ![t] = node]
    /\ visited' = visited + 1
    /\ pc' = [pc EXCEPT ![t] = "register"]
    /\ UNCHANGED <<phase, transform_info, registered, program, mutator_id>>
    /\ UNCHANGED runVars

\* transform, lines 66-70: register the possible mutations of the node.
\* Other threads' transforms may have registered since the node was handed
\* to this one.
TransformRegister(t) ==
    /\ phase = "build" /\ pc[t] = "register"
    /\ LET op == BinopEqSpanned(e[t])
           r == add_mutations(transform_info, MutationRecords(op, Context))
       IN /\ transform_info' = r.info
          /\ mutator_id' = [mutator_id EXCEPT ![t] = r.id]
    /\ registered' = Append(registered, e[t].span)
    /\ pc' = [pc EXCEPT ![t] = "rewrite"]
    /\ UNCHANGED <<phase, visited, program, e>>
    /\ UNCHANGED runVars

\* Variant of lines 72-81 that returns the quoted tokens as a verbatim
\* node, without parsing them.
TransformRewriteUnparsed(t) ==
    /\ phase = "build" /\ pc[t] = "rewrite"
    /\ program' = program @@
                   (e[t].span :>
                       [kind |-> "Verbatim",
                        tokens |-> QuoteSpanned(
                                      DispatchExpr(mutator_id[t], e[t].left,
                                                   e[t].right,
                                                   BinopEqSpanned(e[t]))),
                        span |-> e[t].span])
    /\ pc' = [pc EXCEPT ![t] = "idle"]
    /\ e' = [e EXCEPT ![t] = NoExpr]
    /\ mutator_id' = [mutator_id EXCEPT ![t] = 0]
    /\ UNCHANGED <<phase, visited, transform_info, registered>>
    /\ UNCHANGED runVars

\* transform, lines 72-81: quote the dispatch call, parse the tokens, and
\* return the parsed call in place of the node; when the tokens do not
\* parse, expect panics ("transformed code invalid") and nothing is
\* returned.
TransformRewrite(t) ==
    /\ phase = "build" /\ pc[t] = "rewrite"
    /\ LET tokens == QuoteSpanned(DispatchExpr(mutator_id[t], e[t].left,
                                               e[t].right,
                                               BinopEqSpanned(e[t])))
           parsed == parse2(tokens)
       IN IF parsed.ok
          THEN /\ program' = program @@ (e[t].span :> parsed.expr)
               /\ pc' = [pc EXCEPT ![t] = "idle"]
               /\ e' = [e EXCEPT ![t] = NoExpr]
               /\ mutator_id' = [mutator_id EXCEPT ![t] = 0]
          ELSE /\ pc' = [pc EXCEPT ![t] = "panicked"]
               /\ UNCHANGED <<program, e, mutator_id>>
    /\ UNCHANGED <<phase, visited, transform_info, registered>>
    /\ UNCHANGED runVars

\* -------------------------------------------------------- harness -------
\* The harness sets the runtime configuration once, after the pass and
\* before execution begins (spec 3, Runtime Configuration).
StartRun ==
    /\ phase = "build"
    /\ \A t \in Threads : pc[t] = "idle"
    /\ phase' = "run"
    /\ \E cfg \in RuntimeConfigs : runtime' = cfg
    /\ coverage' = {}
    /\ invoked' = {}
    /\ UNCHANGED <<visited, transform_info, registered, program, pc, e, mutator_id,
                   frame, evals, result>>

\* ------------------------------------------------------ call sites ------
\* A thread reaches the rewritten site at position i: the arguments of the
\* call are evaluated in the order they are written, each operand once, and
\* bound to run's parameters.
Call(t) ==
    /\ phase = "run" /\ pc[t] \in {"idle", "done"}
    /\ \E i \in DOMAIN program :
          /\ program[i].kind = "Call"
          /\ LET call == program[i]
                 refs == RefArgs(call)
             IN \E vals \in Operands :
                   /\ evals' = [evals EXCEPT ![t] =
                                  [k \in 1..Len(refs) |->
                                     [expr |-> LastIdent(refs[k].expr.expr),
                                      val |-> vals[k]]]]
                   /\ frame' = [frame EXCEPT ![t] =
                                  [site |-> i,
                                   mutator_id |-> call.args[1].n,
                                   left |-> vals[1],
                                   right |-> vals[2],
                                   original_op |-> LastIdent(call.args[4])]]
                   /\ invoked' = invoked \cup {call.args[1].n}
    /\ result' = [result EXCEPT ![t] = FALSE]
    /\ pc' = [pc EXCEPT ![t] = "run"]
    /\ UNCHANGED <<phase, visited, transform_info, registered, program, runtime,
                   coverage, e, mutator_id>>

\* Variant of line 27 that marks the site only when its mutation is taken.
RunCoveredOnlyMutated(t) ==
    /\ phase = "run" /\ pc[t] = "run"
    /\ coverage' =
          IF get_mutation(runtime, frame[t].mutator_id,
                          possible_mutations(frame[t].original_op)) # <<>>
          THEN covered(coverage, frame[t].mutator_id)
          ELSE coverage
    /\ pc' = [pc EXCEPT ![t] = "dispatch"]
    /\ UNCHANGED invoked
    /\ UNCHANGED <<phase, visited, transform_info, registered, program, runtime,
                   e, mutator_id, frame, evals, result>>

\* Variant of line 27 that stores the flag by assignment, so that a call at
\* one site clears the flags of the others.
RunCoveredOverwrites(t) ==
    /\ phase = "run" /\ pc[t] = "run"
    /\ coverage' = {frame[t].mutator_id}
    /\ pc' = [pc EXCEPT ![t] = "dispatch"]
    /\ UNCHANGED invoked
    /\ UNCHANGED <<phase, visited, transform_info, registered, program, runtime,
                   e, mutator_id, frame, evals, result>>

\* Variant of line 27 whose flag update is a read and a later write of the
\* whole map: the write puts back a map read earlier, without the flags
\* other threads set in between.
RunCoveredLostUpdate(t) ==
    /\ phase = "run" /\ pc[t] = "run"
    /\ \E stale \in SUBSET coverage :
          coverage' = covered(stale, frame[t].mutator_id)
    /\ pc' = [pc EXCEPT ![t] = "dispatch"]
    /\ UNCHANGED invoked
    /\ UNCHANGED <<phase, visited, transform_info, registered, program, runtime,
                   e, mutator_id, frame, evals, result>>

\* run, line 27: runtime.covered(mutator_id).
RunCovered(t) ==
    /\ phase = "run" /\ pc[t] = "run"
    /\ coverage' = covered(coverage, frame[t].mutator_id)
    /\ pc' = [pc EXCEPT ![t] = "dispatch"]
    /\ UNCHANGED invoked
    /\ UNCHANGED <<phase, visited, transform_info, registered, program, runtime,
                   e, mutator_id, frame, evals, result>>

\* Variant of lines 28-33 that switches the mutation off once it was taken.
RunDispatchOneShot(t) ==
    /\ phase = "run" /\ pc[t] = "dispatch"
    /\ result' = [result EXCEPT ![t] =
                    run(frame[t].mutator_id, frame[t].left, frame[t].right,
                        frame[t].original_op, runtime)]
    /\ runtime' =
          IF get_mutation(runtime, frame[t].mutator_id,
                          possible_mutations(frame[t].original_op)) # <<>>
          THEN without_mutation
          ELSE runtime
    /\ pc' = [pc EXCEPT ![t] = "done"]
    /\ UNCHANGED invoked
    /\ UNCHANGED <<phase, visited, transform_info, registered, program,
                   coverage, e, mutator_id, frame, evals>>

\* run, lines 28-33: choose the mutation or the original and evaluate it.
RunDispatch(t) ==
    /\ phase = "run" /\ pc[t] = "dispatch"
    /\ result' = [result EXCEPT ![t] =
                    run(frame[t].mutator_id, frame[t].left, frame[t].right,
                        frame[t].original_op, runtime)]
    /\ pc' = [pc EXCEPT ![t] = "done"]
    /\ UNCHANGED invoked
    /\ UNCHANGED <<phase, visited, transform_info, registered, program, runtime,
                   coverage, e, mutator_id, frame, evals>>

Next ==
    \/ \E t \in Threads : TransformIdentity(t)
    \/ \E t \in Threads : TransformMatch(t)
    \/ \E t \in Threads : TransformRegister(t)
    \/ \E t \in Threads : TransformRewrite(t)
    \/ StartRun
    \/ \E t \in Threads : Call(t)
    \/ \E t \in Threads : RunCovered(t)
    \/ \E t \in Threads : RunDispatch(t)

Spec == Init /\ [][Next]_vars

\* ========================================================= properties ===
\* The operator's own meaning, stated apart from BinopEq::eq.
DirectEval(op, l, r) == (op = "Eq") <=> (l = r)

\* The other member of the two-member family.
Other(op) == IF op = "Eq" THEN "Ne" ELSE "Eq"

Done(t) == phase = "run" /\ pc[t] = "done"

\* The rewritten call sites and their identifier blocks.
Sites == {i \in DOMAIN program : program[i].kind = "Call"}
Base(i) == program[i].args[1].n
SiteOp(i) == LastIdent(program[i].args[4])
Block(i) == Base(i)..(Base(i) + Len(possible_mutations(SiteOp(i))) - 1)

\* C1 -- Identity under no mutation: a call of run that completes under the
\* inactive runtime configuration returns the direct evaluation of the
\* original operator on its operands, at every site.
C1_IdentityInactive ==
    \A t \in Threads :
        (Done(t) /\ ~runtime.active) =>
            result[t] = DirectEval(frame[t].original_op,
                                   frame[t].left, frame[t].right)

\* Scenario 1 of the tests: Eq on (5, 4) with no mutation returns false.
C1_Witness ==
    \E t \in Threads :
        /\ Done(t) /\ ~runtime.active
        /\ frame[t].original_op = "Eq"
        /\ frame[t].left = TestLeft /\ frame[t].right = TestRight
        /\ result[t] = FALSE

\* C2 -- Exact substitution: at a site with the single candidate c whose
\* base identifier is the active identifier, run returns the evaluation of
\* c, which is not the original operator's result.
C2_ExactSubstitution ==
    \A t \in Threads :
        (Done(t) /\ runtime.active
            /\ runtime.mutation_id = frame[t].mutator_id) =>
            LET c == Other(frame[t].original_op)
            IN /\ possible_mutations(frame[t].original_op) = <<[op |-> c]>>
               /\ result[t] = DirectEval(c, frame[t].left, frame[t].right)
               /\ result[t] # DirectEval(frame[t].original_op,
                                         frame[t].left, frame[t].right)

\* Scenario 4 of the tests: Ne on (5, 4) with its mutation active returns
\* false.
C2_Witness ==
    \E t \in Threads :
        /\ Done(t) /\ runtime.active
        /\ runtime.mutation_id = frame[t].mutator_id
        /\ frame[t].original_op = "Ne"
        /\ frame[t].left = TestLeft /\ frame[t].right = TestRight
        /\ result[t] = FALSE

\* C3 -- No cross-site leakage: with the active identifier in site A's
\* block and not in site B's, every completed call at B returns what it
\* returns with no mutation active, and every completed call at A returns
\* the mutant's result.
C3_NoCrossSiteLeakage ==
    \A a \in Sites : \A b \in Sites \ {a} :
        (runtime.active /\ runtime.mutation_id \in Block(a)
            /\ runtime.mutation_id \notin Block(b)) =>
            \A t \in Threads :
                /\ (Done(t) /\ frame[t].site = b) =>
                      /\ result[t] = DirectEval(SiteOp(b), frame[t].left,
                                                frame[t].right)
                      /\ result[t] = run(Base(b), frame[t].left,
                                         frame[t].right, SiteOp(b),
                                         without_mutation)
                /\ (Done(t) /\ frame[t].site = a) =>
                      result[t] = DirectEval(Other(SiteOp(a)), frame[t].left,
                                             frame[t].right)

\* Scenario 5: sites with bases 1 and 2, mutation 1 active; one thread has
\* completed a call at each site.
C3_Witness ==
    \E a \in Sites : \E b \in Sites :
        /\ Base(a) = 1 /\ Base(b) = 2
        /\ runtime = with_mutation_id(1)
        /\ Done(1) /\ frame[1].site = a
        /\ Done(2) /\ frame[2].site = b
        /\ frame[1].left = frame[2].left /\ frame[1].right = frame[2].right
        /\ SiteOp(a) = SiteOp(b)
        /\ result[1] # result[2]

\* C4 -- Candidate completeness and exclusivity: for the original operator
\* of every node being transformed and of every call being executed,
\* possible_mutations has one entry less than the family has variants,
\* never holds the original, and lists the other variants in the order of
\* variants; Eq gives [Ne] and Ne gives [Eq].
CandidatesOk(O) ==
    LET c == possible_mutations(O)
        pos(op) == CHOOSE k \in 1..Len(variants) : variants[k] = op
    IN /\ Len(c) = Len(variants) - 1
       /\ \A i \in 1..Len(c) : c[i].op # O
       /\ {c[i].op : i \in 1..Len(c)} = {variants[k] : k \in 1..Len(variants)} \ {O}
       /\ \A i \in 1..Len(c) : \A j \in 1..Len(c) :
             i < j => pos(c[i].op) < pos(c[j].op)
       /\ O = "Eq" => c = <<[op |-> "Ne"]>>
       /\ O = "Ne" => c = <<[op |-> "Eq"]>>

C4_Candidates ==
    \A t \in Threads :
        /\ pc[t] \in {"register", "rewrite"} => CandidatesOk(e[t].op)
        /\ pc[t] \in {"run", "dispatch", "done"} =>
              CandidatesOk(frame[t].original_op)

\* Both operators are in use at once: a call on Eq and a call on Ne.
C4_Witness ==
    /\ pc[1] = "dispatch" /\ frame[1].original_op = "Eq"
    /\ pc[2] = "dispatch" /\ frame[2].original_op = "Ne"

\* The register calls that have returned: those of transforms between
\* add_mutations and the rewrite or panicked in it, and those of the emitted
\* call sites.
Allocs ==
    {[span |-> e[t].span, base |-> mutator_id[t], op |-> e[t].op] :
        t \in {u \in Threads : pc[u] \in {"rewrite", "panicked"}}}
    \cup {[span |-> i, base |-> Base(i), op |-> SiteOp(i)] : i \in Sites}

EntriesPassed(a) == MutationRecords([op |-> a.op, span |-> a.span], Context)
BlockOf(a) == a.base..(a.base + Len(EntriesPassed(a)) - 1)

\* C5 -- Atomic block allocation: whatever the interleaving of the
\* transforms, every register call has returned the first identifier of a
\* block as long as the entries it passed, the blocks of different calls
\* are disjoint, and together they are exactly the identifiers allocated so
\* far, from the first identifier up to the counter.
C5_BlockAllocation ==
    LET allocs == Allocs
        block == [a \in allocs |-> BlockOf(a)]
        allocated == FirstId..(transform_info.next_id - 1)
    IN /\ \A a \in allocs :
             /\ Cardinality(block[a]) = Len(possible_mutations(a.op))
             /\ block[a] \subseteq allocated
       /\ \A a \in allocs : \A b \in allocs \ {a} : block[a] \cap block[b] = {}
       /\ UNION {block[a] : a \in allocs} = allocated
       /\ DOMAIN transform_info.mutations = allocated

\* Two transforms are in flight at once, and the thread that registered
\* second holds the later block.
C5_Witness ==
    /\ pc[1] = "rewrite" /\ pc[2] = "rewrite"
    /\ mutator_id[1] = FirstId + 1 /\ mutator_id[2] = FirstId
    /\ transform_info.next_id = FirstId + 2

\* C6 -- Coverage is unconditional: once a call of run is past its first
\* statement, be it about to dispatch or completed, the site's identifier is
\* in the Coverage Map, under every runtime configuration.
C6_CoverageUnconditional ==
    \A t \in Threads :
        pc[t] \in {"dispatch", "done"} => frame[t].mutator_id \in coverage

\* A call is about to dispatch while the mutation of another site is active.
C6_Witness ==
    \E t \in Threads :
        /\ pc[t] = "dispatch"
        /\ runtime.active
        /\ runtime.mutation_id \in DOMAIN transform_info.mutations
        /\ runtime.mutation_id # frame[t].mutator_id
        /\ frame[t].mutator_id \in coverage

\* C7 -- Coverage monotonicity: in a run, a covered identifier stays covered
\* in every step, an identifier becomes covered only in the first statement
\* of a call of run at its site, and that statement leaves it covered.
C7_Step ==
    \A id \in FirstId..(FirstId + MaxNodes) :
        /\ id \in coverage => id \in coverage'
        /\ (id \notin coverage /\ id \in coverage') =>
              \E t \in Threads :
                  /\ pc[t] = "run" /\ pc'[t] = "dispatch"
                  /\ frame[t].mutator_id = id
        /\ \A t \in Threads :
              (pc[t] = "run" /\ pc'[t] = "dispatch"
                  /\ frame[t].mutator_id = id) => id \in coverage'

C7_CoverageMonotone == [][phase = "run" => C7_Step]_vars

\* One site has been called twice and is covered, the other not yet.
C7_Witness ==
    \E a \in Sites : \E b \in Sites :
        /\ Done(1) /\ frame[1].site = a
        /\ pc[2] = "dispatch" /\ frame[2].site = a
        /\ Base(a) \in coverage
        /\ Base(b) \notin coverage

\* C8 -- Operand evaluation: in every call of a rewritten site, under every
\* runtime configuration, the operand evaluations are the left operand once
\* and then the right operand once, and run receives their values as left
\* and right.
C8_OperandOrder ==
    \A t \in Threads :
        pc[t] \in {"run", "dispatch", "done"} =>
            /\ Len(evals[t]) = 2
            /\ evals[t][1].expr = LeftExpr
            /\ evals[t][2].expr = RightExpr
            /\ frame[t].left = evals[t][1].val
            /\ frame[t].right = evals[t][2].val

\* The same evaluation log under the site's own mutation and under none.
C8_Witness ==
    /\ Done(1) /\ runtime.active
    /\ runtime.mutation_id = frame[1].mutator_id
    /\ evals[1] = << [expr |-> LeftExpr, val |-> TestLeft],
                     [expr |-> RightExpr, val |-> TestRight] >>

\* C9 -- Fail-open: a call completed while the active identifier lies
\* outside the site's block, registered or not, returned the original
\* operator's value; and a call about to dispatch can always complete.
C9_FailOpen ==
    \A t \in Threads :
        LET lo == frame[t].mutator_id
            hi == lo + Len(possible_mutations(frame[t].original_op))
        IN /\ (Done(t) /\ runtime.active
                 /\ ~(lo <= runtime.mutation_id /\ runtime.mutation_id < hi)) =>
                 result[t] = DirectEval(frame[t].original_op,
                                        frame[t].left, frame[t].right)
           /\ (phase = "run" /\ pc[t] = "dispatch") => ENABLED RunDispatch(t)

\* Stale configurations: the identifier just past the last block is active,
\* and a call of the last site has completed with the original's value.
C9_Witness ==
    \E t \in Threads :
        /\ Done(t) /\ runtime.active
        /\ runtime.mutation_id = transform_info.next_id
        /\ runtime.mutation_id \notin DOMAIN transform_info.mutations
        /\ frame[t].mutator_id + 1 = runtime.mutation_id
        /\ frame[t].original_op = "Eq"
        /\ frame[t].left = frame[t].right
        /\ result[t] = TRUE

\* C10 -- Identifiers are never reused and entries are immutable: no step
\* changes or removes the entry stored under an identifier, and identifiers
\* that gain an entry come from the counter, above every identifier handed
\* out before.
C10_Step ==
    LET m == transform_info.mutations
        n == transform_info'.mutations
    IN /\ \A id \in DOMAIN m : id \in DOMAIN n /\ n[id] = m[id]
       /\ \A id \in (DOMAIN n) \ (DOMAIN m) :
             /\ transform_info.next_id <= id
             /\ id < transform_info'.next_id
             /\ \A old \in DOMAIN m : old < id
       /\ transform_info.next_id <= transform_info'.next_id

C10_RegistryImmutable == [][C10_Step]_vars

\* Two registrations have happened, with different entries, and the run
\* has started.
C10_Witness ==
    /\ phase = "run"
    /\ DOMAIN transform_info.mutations = {FirstId, FirstId + 1}
    /\ transform_info.mutations[FirstId] # transform_info.mutations[FirstId + 1]
    /\ transform_info.mutations[FirstId].original_code
          # transform_info.mutations[FirstId + 1].original_code

\* C11 -- Identity transform on non-matching nodes: whenever transform
\* returns something that is no dispatch call, it is the node of that
\* position as the frontend supplied it (a non-binary node, or a binary node
\* on another operator, with its operands, operator and attributes), and
\* the step leaves the registry and its counter as they were; a transform
\* registers only for a node of the family.
C11_Step ==
    /\ \A i \in (DOMAIN program') \ (DOMAIN program) :
          program'[i].kind # "Call" =>
              /\ program'[i] \in Nodes(i)
              /\ ~IsMatch(program'[i])
              /\ transform_info' = transform_info
    /\ transform_info' # transform_info =>
          \E t \in Threads :
              /\ pc[t] = "register" /\ pc'[t] = "rewrite"
              /\ IsMatch(e[t])

C11_IdentityTransform == [][C11_Step]_vars

\* Both arms have been taken, a binary node on another operator and a
\* non-binary node, and the registry is as it was before the pass.
C11_Witness ==
    /\ visited = 2
    /\ 1 \in DOMAIN program /\ program[1] = BinaryNode("Lt", 1)
    /\ 2 \in DOMAIN program /\ program[2] = LitNode(2)
    /\ transform_info = NewTransformInfo

\* C12 -- NotEqual negates Equal: on the operands of every call, the Ne
\* variant evaluates to the negation of the Eq variant; and a call completed
\* with its site's mutation active returned the negation of what the same
\* call returns with no mutation active.
C12_NeNegatesEq ==
    \A t \in Threads :
        /\ (phase = "run" /\ pc[t] \in {"run", "dispatch", "done"}) =>
              eq("Ne", frame[t].left, frame[t].right)
                  = ~eq("Eq", frame[t].left, frame[t].right)
        /\ (Done(t) /\ runtime.active
               /\ runtime.mutation_id \in Block(frame[t].site)) =>
              result[t] = ~run(frame[t].mutator_id, frame[t].left,
                               frame[t].right, frame[t].original_op,
                               without_mutation)

\* Calls on equal operands at an Eq site: one thread's call has completed
\* under the site's mutation and returned false, where Eq gives true.
C12_Witness ==
    \E t \in Threads :
        /\ Done(t) /\ runtime.active
        /\ runtime.mutation_id \in Block(frame[t].site)
        /\ frame[t].original_op = "Eq"
        /\ frame[t].left = TestRight /\ frame[t].right = TestRight
        /\ result[t] = FALSE

\* The positions before i whose node was of the family: their transform
\* stands before add_mutations, is between add_mutations and the rewrite,
\* has panicked in the rewrite, or has emitted a call.
MatchedBefore(i) ==
    {j \in 1..(i - 1) :
        \/ j \in DOMAIN program /\ program[j].kind = "Call"
        \/ \E t \in Threads :
              pc[t] \in {"register", "rewrite", "panicked"} /\ e[t].span = j}

\* The identifiers and entries a register call holds are those of its place
\* a among the nodes of the family in traversal order.
PositionIds(a) ==
    /\ a.base = FirstId
                 + Cardinality(MatchedBefore(a.span)) * (Len(variants) - 1)
    /\ \A k \in 1..(Len(variants) - 1) :
          /\ (a.base + k - 1) \in DOMAIN transform_info.mutations
          /\ transform_info.mutations[a.base + k - 1] = EntriesPassed(a)[k]

\* The pass has transformed the nodes in traversal order (spec 5: the order
\* is fixed by the traversal, not by thread scheduling): the positions
\* registered increase, and no transform that was handed an earlier node
\* still stands before add_mutations.
RegisteredInTraversalOrder ==
    /\ \A j \in 1..Len(registered) : \A k \in 1..Len(registered) :
          j < k => registered[j] < registered[k]
    /\ \A t \in Threads : \A k \in 1..Len(registered) :
          pc[t] = "register" => registered[k] < e[t].span

\* C13 -- Reproducible identifier assignment: in a pass that transforms the
\* nodes in traversal order from the initial registry, the base identifier
\* of every site is a function of the node sequence alone (the first
\* identifier plus one identifier per candidate of each earlier node of the
\* family), and the entry under each of its identifiers is the one of the
\* node itself; so two such passes over the same nodes give every site the
\* same base identifier and store the same metadata under every identifier.
C13_Reproducible ==
    RegisteredInTraversalOrder =>
        /\ {a.span : a \in Allocs} = {registered[k] : k \in 1..Len(registered)}
        /\ \A a \in Allocs : PositionIds(a)
        /\ transform_info.next_id
              = FirstId + Len(registered) * (Len(variants) - 1)

\* The pass went over an == node and a != node in traversal order and the
\* run has started: the first site holds the first identifier, the second
\* the next, and each identifier's entry is of its own node.
C13_Witness ==
    /\ phase = "run"
    /\ registered = <<1, 2>>
    /\ Sites = {1, 2}
    /\ SiteOp(1) = "Eq" /\ SiteOp(2) = "Ne"
    /\ Base(1) = FirstId /\ Base(2) = FirstId + (Len(variants) - 1)
    /\ transform_info.mutations[Base(1)].span = 1
    /\ transform_info.mutations[Base(2)].span = 2

\* The operator tokens as reports show them, and the operator of a token.
Render(op) == IF op = "Eq" THEN "==" ELSE "!="
OpOfText(text) == CHOOSE op \in BinopEq : Render(op) = text

\* The variants other than O, in the order of variants.
CandidatesOf(O) ==
    LET other(op) == op # O IN SelectSeq(variants, other)

\* C14 -- Registry metadata agrees with dispatch: for every site with
\* original operator O and base b, the registry holds one record per
\* candidate of O, in candidate order: under b+k-1 the family tag
\* "binop_eq", the text of O and the text of candidate k, at the site's
\* position; and a call completed at the site while b+k-1 was active
\* returned the value of the operator that entry names as the mutant.
C14_MetadataMatchesDispatch ==
    \A i \in Sites :
        LET b == Base(i)
            O == SiteOp(i)
            c == CandidatesOf(O)
            m == transform_info.mutations
        IN /\ \A k \in 1..Len(c) :
                 /\ (b + k - 1) \in DOMAIN m
                 /\ m[b + k - 1] = [fn_name |-> FnName,
                                    mutator |-> "binop_eq",
                                    original_code |-> Render(O),
                                    mutated_code |-> Render(c[k]),
                                    span |-> i]
           /\ {id \in DOMAIN m : m[id].span = i} = b..(b + Len(c) - 1)
           /\ \A t \in Threads :
                 (Done(t) /\ frame[t].site = i /\ runtime.active
                     /\ runtime.mutation_id \in b..(b + Len(c) - 1)) =>
                     result[t] = DirectEval(
                                    OpOfText(m[runtime.mutation_id].mutated_code),
                                    frame[t].left, frame[t].right)

\* A Ne site whose entry reads "!=" replaced by "==" is active, and a call
\* on equal operands has returned true there.
C14_Witness ==
    \E t \in Threads :
        /\ Done(t) /\ runtime.active
        /\ runtime.mutation_id = frame[t].mutator_id
        /\ frame[t].original_op = "Ne"
        /\ transform_info.mutations[runtime.mutation_id].original_code = "!="
        /\ transform_info.mutations[runtime.mutation_id].mutated_code = "=="
        /\ frame[t].left = frame[t].right
        /\ result[t] = TRUE

\* A returned value that is not the original operator's: the call took
\* the mutant branch.
TookMutant(res, f) == res # DirectEval(f.original_op, f.left, f.right)

\* C15 -- Per-site branch stability: in a run no step changes the runtime
\* configuration; a site not yet covered has no call past run's first
\* statement; and every call that completes takes the mutant branch exactly
\* when the active identifier is in its site's block, which is the branch of
\* every call already completed at that site.
C15_Step ==
    /\ runtime' = runtime
    /\ \A t \in Threads :
          (pc[t] \in {"dispatch", "done"}) => Base(frame[t].site) \in coverage
    /\ \A t \in Threads :
          (pc[t] = "dispatch" /\ pc'[t] = "done") =>
              LET i == frame[t].site
                  took == TookMutant(result'[t], frame'[t])
              IN /\ took <=> (runtime.active /\ runtime.mutation_id \in Block(i))
                 /\ \A u \in Threads \ {t} :
                       (pc[u] = "done" /\ frame[u].site = i) =>
                           (TookMutant(result[u], frame[u]) <=> took)

C15_BranchStable == [][phase = "run" => C15_Step]_vars

\* Two calls on different operands have completed at the active site, both
\* on the mutant branch.
C15_Witness ==
    /\ Done(1) /\ Done(2)
    /\ frame[1].site = frame[2].site
    /\ frame[1].left = frame[1].right /\ frame[2].left # frame[2].right
    /\ runtime.active /\ runtime.mutation_id \in Block(frame[1].site)
    /\ TookMutant(result[1], frame[1]) /\ TookMutant(result[2], frame[2])

\* C16 -- Concurrent calls keep coverage and results: whenever no call is
\* in progress, the covered identifiers are exactly the identifiers of the
\* sites that were called, whatever the interleaving of the threads; and
\* every completed call returned what its site returns under the run's
\* configuration when called alone: the candidate's value if the active
\* identifier is in the site's block, the original's otherwise.
C16_ConcurrentCalls ==
    /\ (phase = "run" /\ \A t \in Threads : pc[t] \in {"idle", "done"}) =>
          coverage = invoked
    /\ \A t \in Threads :
          Done(t) =>
              LET O == frame[t].original_op
                  hit == runtime.active
                         /\ runtime.mutation_id \in Block(frame[t].site)
              IN result[t] = DirectEval(IF hit THEN Other(O) ELSE O,
                                        frame[t].left, frame[t].right)

\* Both threads have completed calls, at two different sites, one of them
\* the active site, and both sites are covered.
C16_Witness ==
    /\ Done(1) /\ Done(2)
    /\ frame[1].site # frame[2].site
    /\ runtime.active /\ runtime.mutation_id = frame[1].mutator_id
    /\ coverage = {frame[1].mutator_id, frame[2].mutator_id}
    /\ Cardinality(invoked) = 2

\* C17 -- At most one mutant site: with the blocks of the sites pairwise
\* disjoint, every completed call that took the mutant branch is at the site
\* whose block holds the active identifier, so any two such calls are at the
\* same site and evaluated the same candidate; calls at every other site
\* returned the original's value.
C17_OneMutantSite ==
    (\A a \in Sites : \A b \in Sites \ {a} : Block(a) \cap Block(b) = {}) =>
        /\ \A t \in Threads :
              (Done(t) /\ TookMutant(result[t], frame[t])) =>
                  /\ runtime.active
                  /\ runtime.mutation_id \in Block(frame[t].site)
        /\ \A t \in Threads : \A u \in Threads :
              (Done(t) /\ TookMutant(result[t], frame[t])
                  /\ Done(u) /\ TookMutant(result[u], frame[u])) =>
                  /\ frame[t].site = frame[u].site
                  /\ Other(frame[t].original_op) = Other(frame[u].original_op)

\* The later of two sites is active: a call there took the mutant branch,
\* a call at the earlier site the original.
C17_Witness ==
    \E a \in Sites : \E b \in Sites :
        /\ Base(a) < Base(b)
        /\ runtime.active /\ runtime.mutation_id = Base(b)
        /\ Done(1) /\ frame[1].site = a /\ ~TookMutant(result[1], frame[1])
        /\ Done(2) /\ frame[2].site = b /\ TookMutant(result[2], frame[2])

\* The case of C18, a node of the family with no candidate, does not arise:
\* every node transform matches has a candidate, so lines 66-81, which hold
\* no test for an empty list, always register and rewrite.
NoEmptyCandidates ==
    /\ \A t \in Threads :
          pc[t] \in {"register", "rewrite"} =>
              Len(possible_mutations(e[t].op)) > 0
    /\ \A i \in Sites : Len(possible_mutations(SiteOp(i))) > 0

\* A call of run as the signature of lines 20-26 takes it: the identifier,
\* two operand references, the original operator, the runtime.
WellFormedDispatch(x) ==
    /\ x.kind = "Call"
    /\ x.func = ExprPath(TRUE, PathAt(RunPath, x.span))
    /\ Len(x.args) = 5
    /\ x.args[1].kind = "Lit"
    /\ \A k \in {2, 3} :
          /\ x.args[k].kind = "Reference"
          /\ x.args[k].expr.kind = "Paren"
          /\ x.args[k].expr.expr.kind = "Path"
    /\ x.args[4] \in {ExprPath(TRUE, PathAt(BinopEqPath, 0)
                                       \o << Seg(op, x.span) >>) :
                          op \in BinopEq}
    /\ x.args[5] = ExprCall(ExprPath(TRUE, PathAt(GetDefaultPath, x.span)),
                            <<>>, x.span)

\* C19 -- Build-time failure is fatal: in every step, a node transform
\* returns in place of a node of the family is a call of run that parse2
\* accepted, the parse of its own tokens, and what transform has returned
\* stays as it is; and a transform is panicked only where the tokens it
\* produced for its node do not parse: it has returned nothing for that
\* node, and no run follows the failed build.
C19_Step ==
    /\ \A i \in DOMAIN program :
          i \in DOMAIN program' /\ program'[i] = program[i]
    /\ \A i \in (DOMAIN program') \ (DOMAIN program) :
          program'[i].kind \notin {"Binary", "Lit"} =>
              /\ WellFormedDispatch(program'[i])
              /\ parse2(QuoteSpanned(program'[i]))
                    = [ok |-> TRUE, expr |-> program'[i]]
    /\ \A t \in Threads :
          pc'[t] = "panicked" =>
              /\ ~parse2(QuoteSpanned(DispatchExpr(mutator_id'[t], e'[t].left,
                                                   e'[t].right,
                                                   BinopEqSpanned(e'[t])))).ok
              /\ e'[t].span \notin DOMAIN program'
              /\ phase' = "build"

C19_OnlyValidatedNodes == [][C19_Step]_vars

\* The first node of the family has been rewritten, and the transform of
\* the second, whose left operand is verbatim, has panicked.
C19_Witness ==
    /\ Sites = {1} /\ WellFormedDispatch(program[1])
    /\ \E t \in Threads :
          /\ pc[t] = "panicked"
          /\ e[t] = VerbatimNode(2)

====
